---- MODULE Spec2Model ----
(***************************************************************************)
(* Model of the toy ElGamal cryptosystem (src/src/cryptosystems.py), its   *)
(* users (src/src/user.py), the attacker and its discrete-logarithm        *)
(* solvers (src/src/attacker.py), the caller of src/main.py and the        *)
(* helpers get_inverse and find_prime_above (src/helpers.py, imported by   *)
(* the code as utils).                                                     *)
(*                                                                         *)
(* Strings are sequences of code points (ord/chr are the identity on a     *)
(* code point), Python's unbounded integers are computed modulo p at each  *)
(* step (the mathematical value of (a ** e) % p), and every randint draw   *)
(* is an input of the action that makes it.  A call that raises leaves the *)
(* mutations made before the raise in place.                               *)
(***************************************************************************)
EXTENDS Integers, Sequences, FiniteSets, TLC

VARIABLES
    p,                    \* ElGamal.p  (0: no instance was constructed)
    g,                    \* ElGamal.g
    debug,                \* ElGamal.debug
    pks,                  \* ElGamal.pks : name -> public key
    users,                \* ElGamal.users : list of User objects
    nb_users,             \* ElGamal.nb_users
    message_queue,        \* ElGamal.message_queue
    intercepted_messages, \* Attacker.intercepted_messages
    input,                \* the arguments drawn for a call of a pure function,
                          \* or what the caller keeps of its last send
    call,                 \* the operation called last
    ret                   \* its outcome: [ok, val]

vars == <<p, g, debug, pks, users, nb_users, message_queue,
          intercepted_messages, input, call, ret>>

csvars == <<p, g, debug, pks, users, nb_users, message_queue>>

----------------------------------------------------------------------------
(* Bounds of the model *)

MaxP == 8          \* largest modulus handed to the constructor
MaxG == 9          \* largest generator handed to the constructor
MaxSolveP == 13    \* largest prime handed to the solvers
MaxSysP == 3       \* largest prime of a running system
MaxUsers == 2      \* longest user list
MaxQueue == 2      \* longest message queue
MaxPending == 1    \* longest message queue while keys rotate and users leave
MaxLog == 1        \* longest sent, received or intercepted log
MaxN == 60         \* largest n handed to find_prime_above

----------------------------------------------------------------------------
(* Arithmetic *)

RECURSIVE ModPow(_, _, _)
\* (b ** e) % m for e >= 0 and m >= 1, as Python computes it on exact integers
ModPow(b, e, m) ==
    IF e = 0 THEN 1 % m ELSE (ModPow(b, e - 1, m) * (b % m)) % m

\* helpers.get_inverse: pow(n, p - 2, p)
get_inverse(n, pp) == ModPow(n, pp - 2, pp)

\* int(p ** 0.5)
IntSqrt(n) == CHOOSE r \in 0..n : r * r <= n /\ (r + 1) * (r + 1) > n

Raise(kind) == [ok |-> FALSE, val |-> kind]
Return(v) == [ok |-> TRUE, val |-> v]

----------------------------------------------------------------------------
(* ElGamal._is_valid_prime and ElGamal._is_valid_generator *)

\* TRUE when _is_valid_prime(n) returns without raising
is_valid_prime(n) ==
    /\ ~(n < 0)
    /\ ~(n = 0)
    /\ \A i \in 2..(n - 1) : (n % i) # 0

RECURSIVE GeneratorLoop(_, _, _, _)
\* the loop of _is_valid_generator from index i on; -1 when it raises on a
\* residue seen before, else the final nb_seen
GeneratorLoop(pp, gg, i, seen) ==
    IF i >= pp THEN Cardinality(seen)
    ELSE LET curr == ModPow(gg, i, pp)
         IN  IF curr \notin seen
             THEN GeneratorLoop(pp, gg, i + 1, seen \cup {curr})
             ELSE -1

\* TRUE when _is_valid_generator(p, g) returns without raising
is_valid_generator(pp, gg) ==
    /\ ~(gg < 0)
    /\ ~(gg = 0)
    /\ GeneratorLoop(pp, gg, 1, {}) = pp - 1

----------------------------------------------------------------------------
(* Attacker.brute_force and Attacker.shanks_bsgs *)

RECURSIVE BruteForceFrom(_, _, _, _)
BruteForceFrom(pp, gg, b, i) ==
    IF i >= pp THEN -1
    ELSE IF ModPow(gg, i, pp) = b THEN i
    ELSE BruteForceFrom(pp, gg, b, i + 1)

\* brute_force with "for i in range(p)": the scan starts at exponent 0
brute_force_from_zero(pp, gg, b) == BruteForceFrom(pp, gg, b, 0)

brute_force(pp, gg, b) == BruteForceFrom(pp, gg, b, 1)

\* list.index counting the positions from 1
IndexFromOne(list, y) ==
    CHOOSE i \in 1..Len(list) :
        list[i] = y /\ \A k \in 1..(i - 1) : list[k] # y

\* list.index: the first position (0-based) of y in the list
IndexOf(list, y) ==
    (CHOOSE i \in 1..Len(list) :
        list[i] = y /\ \A k \in 1..(i - 1) : list[k] # y) - 1

RECURSIVE GiantSteps(_, _, _, _, _, _)
GiantSteps(pp, b, n, baby_steps, g_inv_n, j) ==
    IF j >= n THEN -1
    ELSE LET y == (b * ModPow(g_inv_n, j, pp)) % pp
         IN  IF \E i \in 1..Len(baby_steps) : baby_steps[i] = y
             THEN IndexOf(baby_steps, y) + j * n
             ELSE GiantSteps(pp, b, n, baby_steps, g_inv_n, j + 1)

\* shanks_bsgs with "n = int(p**0.5)"
shanks_bsgs_floor(pp, gg, b) ==
    LET n == IntSqrt(pp)
        baby_steps == [i \in 1..n |-> ModPow(gg, i - 1, pp)]
        g_inv_n == get_inverse(ModPow(gg, n, pp), pp)
    IN  GiantSteps(pp, b, n, baby_steps, g_inv_n, 0)

shanks_bsgs(pp, gg, b) ==
    LET n == IntSqrt(pp) + 1
        baby_steps == [i \in 1..n |-> ModPow(gg, i - 1, pp)]
        g_inv_n == get_inverse(ModPow(gg, n, pp), pp)
    IN  GiantSteps(pp, b, n, baby_steps, g_inv_n, 0)

----------------------------------------------------------------------------
(* The ElGamal object as a value: the operations below map a system state  *)
(* and the call's arguments to the state after the call and its outcome.   *)

CS == [p |-> p, g |-> g, debug |-> debug, pks |-> pks, users |-> users,
       nb_users |-> nb_users, message_queue |-> message_queue]

Outcome(s, r) == [cs |-> s, ret |-> r]

\* User.__init__
User(name, sk) ==
    [name |-> name, sk |-> sk,
     received_messages |-> <<>>, nb_received_messages |-> 0,
     sent_messages |-> <<>>, nb_sent_messages |-> 0,
     connections |-> <<>>]

\* ElGamal.__init__: the outcome of ElGamal(pp, gg, dbg)
Construct(pp, gg, dbg) ==
    IF ~is_valid_prime(pp) THEN Raise("not prime")
    ELSE IF ~is_valid_generator(pp, gg) THEN Raise("not a generator")
    ELSE Return([p |-> pp, g |-> gg % pp, debug |-> dbg, pks |-> <<>>,
                 users |-> <<>>, nb_users |-> 0, message_queue |-> <<>>])

\* TRUE when _is_valid_username(name) returns: None is the empty name here
username_passes(s, name) == ~(name = "" /\ s.debug)

\* _user_exists with its raise under "if self.debug:", like the raise of
\* _is_valid_username
user_exists_unless_quiet(s, name) == name \in DOMAIN s.pks \/ ~s.debug

\* TRUE when _user_exists(name) returns
user_exists(s, name) == name \in DOMAIN s.pks

\* TRUE when _is_valid_char(char) returns
char_passes(s, ch) == ~(ch > s.p)

\* self.pks.setdefault(name, pk): a key that is there is kept
SetPkDefault(s, name, pk) ==
    [n \in (DOMAIN s.pks) \cup {name} |->
        IF n \in DOMAIN s.pks THEN s.pks[n] ELSE pk]

\* self.pks[name] = pk
SetPk(s, name, pk) ==
    [n \in (DOMAIN s.pks) \cup {name} |-> IF n = name THEN pk ELSE s.pks[n]]

\* "for user in self.users: if user.name == name": the position of the first
\* such user, 0 when the loop finds none
FirstUser(s, name) ==
    IF \E i \in 1..Len(s.users) : s.users[i].name = name
    THEN CHOOSE i \in 1..Len(s.users) :
            /\ s.users[i].name = name
            /\ \A k \in 1..(i - 1) : s.users[k].name # name
    ELSE 0

RemoveAt(seq, i) == SubSeq(seq, 1, i - 1) \o SubSeq(seq, i + 1, Len(seq))

\* ElGamal.add_user, sk being the randint draw
add_user(s, name, sk) ==
    IF ~username_passes(s, name) THEN Outcome(s, Raise("name is empty"))
    ELSE IF s.p - 1 < 1 THEN Outcome(s, Raise("ValueError"))
    ELSE IF sk < 0 THEN Outcome(s, Raise("private key is negative"))
    ELSE Outcome([s EXCEPT !.pks = SetPk(s, name, ModPow(s.g, sk, s.p)),
                           !.users = Append(s.users, User(name, sk)),
                           !.nb_users = s.nb_users + 1],
                 Return("None"))

\* remove_user with "self.nb_users -= 1" after the loop
remove_user_counting(s, name) ==
    IF ~username_passes(s, name) THEN Outcome(s, Raise("name is empty"))
    ELSE IF ~user_exists(s, name) THEN Outcome(s, Raise("not in user list"))
    ELSE LET i == FirstUser(s, name)
         IN  IF i = 0
             THEN Outcome([s EXCEPT !.nb_users = s.nb_users - 1],
                          Return("None"))
             ELSE Outcome([s EXCEPT !.users = RemoveAt(s.users, i),
                                    !.nb_users = s.nb_users - 1],
                          Return("None"))

\* ElGamal.remove_user
remove_user(s, name) ==
    IF ~username_passes(s, name) THEN Outcome(s, Raise("name is empty"))
    ELSE IF ~user_exists(s, name) THEN Outcome(s, Raise("not in user list"))
    ELSE LET i == FirstUser(s, name)
         IN  IF i = 0 THEN Outcome(s, Return("None"))
             ELSE Outcome([s EXCEPT !.users = RemoveAt(s.users, i),
                                    !.nb_users = s.nb_users - 1],
                          Return("None"))

\* ElGamal.get_user: the position of the returned user object, 0 for None
get_user(s, name) ==
    IF ~username_passes(s, name) THEN Raise("name is empty")
    ELSE IF ~user_exists(s, name) THEN Raise("not in user list")
    ELSE Return(FirstUser(s, name))

\* ElGamal.get_user_pk
get_user_pk(s, name) ==
    IF ~username_passes(s, name) THEN Raise("name is empty")
    ELSE IF ~user_exists(s, name) THEN Raise("not in user list")
    ELSE Return(s.pks[name])

\* get_new_sk without its "self.pks[name] = ..." line
get_new_sk_stale_pk(s, name, new_sk) ==
    IF ~username_passes(s, name) THEN Outcome(s, Raise("name is empty"))
    ELSE IF ~user_exists(s, name) THEN Outcome(s, Raise("not in user list"))
    ELSE IF s.p - 1 < 1 THEN Outcome(s, Raise("ValueError"))
    ELSE IF FirstUser(s, name) = 0 THEN Outcome(s, Return(new_sk))
    ELSE Outcome([s EXCEPT !.users[FirstUser(s, name)].sk = new_sk],
                 Return(new_sk))

\* ElGamal.get_new_sk, new_sk being the randint draw
get_new_sk(s, name, new_sk) ==
    IF ~username_passes(s, name) THEN Outcome(s, Raise("name is empty"))
    ELSE IF ~user_exists(s, name) THEN Outcome(s, Raise("not in user list"))
    ELSE IF s.p - 1 < 1 THEN Outcome(s, Raise("ValueError"))
    ELSE LET i == FirstUser(s, name)
             us == IF i = 0 THEN s.users
                   ELSE [s.users EXCEPT ![i].sk = new_sk]
         IN  Outcome([s EXCEPT !.users = us,
                               !.pks = SetPk(s, name, ModPow(s.g, new_sk, s.p))],
                     Return(new_sk))

----------------------------------------------------------------------------
(* Messages *)

\* ElGamal.encrypt_char after its call of get_new_sk: rot is that call's
\* outcome and i the position of src_user (0 for None)
EncryptRotated(rot, i, src, dst, ch) ==
    IF ~rot.ret.ok THEN rot
    ELSE IF ~get_user_pk(rot.cs, src).ok
    THEN Outcome(rot.cs, get_user_pk(rot.cs, src))
    ELSE IF ~get_user_pk(rot.cs, dst).ok
    THEN Outcome(rot.cs, get_user_pk(rot.cs, dst))
    ELSE IF i = 0 THEN Outcome(rot.cs, Raise("AttributeError"))
    ELSE Outcome(rot.cs,
           Return(<<rot.cs.pks[src],
                    (ch * ModPow(rot.cs.pks[dst], rot.cs.users[i].sk, rot.cs.p))
                    % rot.cs.p>>))

\* encrypt_char without its "self.get_new_sk(src)" line
encrypt_char_same_key(s, src, dst, ch, k) ==
    IF ~char_passes(s, ch) THEN Outcome(s, Raise("greater than p"))
    ELSE IF ~get_user(s, src).ok THEN Outcome(s, get_user(s, src))
    ELSE EncryptRotated(Outcome(s, Return(k)), FirstUser(s, src), src, dst, ch)

\* ElGamal.encrypt_char, k being the randint draw of get_new_sk
encrypt_char(s, src, dst, ch, k) ==
    IF ~char_passes(s, ch) THEN Outcome(s, Raise("greater than p"))
    ELSE IF ~get_user(s, src).ok THEN Outcome(s, get_user(s, src))
    ELSE EncryptRotated(get_new_sk(s, src, k), FirstUser(s, src), src, dst, ch)

RECURSIVE EncryptLoop(_, _, _, _, _, _, _)
RECURSIVE EncryptNext(_, _, _, _, _, _, _)

\* "for char in m: chars.append(self.encrypt_char(src, dst, char))" from the
\* i-th character on; ks[i] is the key drawn for the i-th character
EncryptLoop(s, src, dst, m, ks, i, chars) ==
    IF i > Len(m) THEN Outcome(s, Return(chars))
    ELSE EncryptNext(encrypt_char(s, src, dst, m[i], ks[i]),
                     src, dst, m, ks, i, chars)

\* the loop after the encryption e of the i-th character
EncryptNext(e, src, dst, m, ks, i, chars) ==
    IF ~e.ret.ok THEN e
    ELSE EncryptLoop(e.cs, src, dst, m, ks, i + 1, Append(chars, e.ret.val))

\* send_message ending with "self.message_queue.append(...)"
SendEncryptedAtTail(enc, i, src, dst, m) ==
    IF ~enc.ret.ok THEN enc
    ELSE IF i = 0 THEN Outcome(enc.cs, Raise("AttributeError"))
    ELSE Outcome(
           [enc.cs EXCEPT
              !.users[i].sent_messages = Append(@, m),
              !.users[i].nb_sent_messages = @ + 1,
              !.users[i].connections = Append(@, dst),
              !.message_queue = Append(@, <<dst, <<src, enc.ret.val>>>>)],
           Return(<<src, enc.ret.val>>))

\* ElGamal.send_message after its loop: enc is the loop's outcome and i the
\* position of src_user (0 for None)
SendEncrypted(enc, i, src, dst, m) ==
    IF ~enc.ret.ok THEN enc
    ELSE IF i = 0 THEN Outcome(enc.cs, Raise("AttributeError"))
    ELSE Outcome(
           [enc.cs EXCEPT
              !.users[i].sent_messages = Append(@, m),
              !.users[i].nb_sent_messages = @ + 1,
              !.users[i].connections = Append(@, dst),
              !.message_queue = <<<<dst, <<src, enc.ret.val>>>>>> \o @],
           Return(<<src, enc.ret.val>>))

\* send_message without its "self._is_valid_dst(src, dst)" line
send_message_any_dst(s, src, dst, m, ks) ==
    IF m = <<>> THEN Outcome(s, Raise("message is empty"))
    ELSE IF ~username_passes(s, src) THEN Outcome(s, Raise("name is empty"))
    ELSE IF ~user_exists(s, src) THEN Outcome(s, Raise("not in user list"))
    ELSE IF ~username_passes(s, dst) THEN Outcome(s, Raise("name is empty"))
    ELSE IF ~user_exists(s, dst) THEN Outcome(s, Raise("not in user list"))
    ELSE SendEncrypted(EncryptLoop(s, src, dst, m, ks, 1, <<>>),
                       FirstUser(s, src), src, dst, m)

\* ElGamal.send_message, ks being the randint draws of its encrypt_char calls
send_message(s, src, dst, m, ks) ==
    IF m = <<>> THEN Outcome(s, Raise("message is empty"))
    ELSE IF ~username_passes(s, src) THEN Outcome(s, Raise("name is empty"))
    ELSE IF ~user_exists(s, src) THEN Outcome(s, Raise("not in user list"))
    ELSE IF ~username_passes(s, dst) THEN Outcome(s, Raise("name is empty"))
    ELSE IF ~user_exists(s, dst) THEN Outcome(s, Raise("not in user list"))
    ELSE IF src = dst THEN Outcome(s, Raise("sender and receiver are the same"))
    ELSE SendEncrypted(EncryptLoop(s, src, dst, m, ks, 1, <<>>),
                       FirstUser(s, src), src, dst, m)

\* decrypt_char with "c1**self.pks[dst] % self.p" as the shared secret
decrypt_char_with_pk(s, dst, char) ==
    IF ~get_user(s, dst).ok THEN get_user(s, dst)
    ELSE IF FirstUser(s, dst) = 0 THEN Raise("AttributeError")
    ELSE Return((get_inverse(ModPow(char[1], s.pks[dst], s.p), s.p)
                 * char[2]) % s.p)

\* ElGamal.decrypt_char
decrypt_char(s, dst, char) ==
    IF ~get_user(s, dst).ok THEN get_user(s, dst)
    ELSE IF FirstUser(s, dst) = 0 THEN Raise("AttributeError")
    ELSE Return((get_inverse(ModPow(char[1], s.users[FirstUser(s, dst)].sk, s.p),
                             s.p)
                 * char[2]) % s.p)

RECURSIVE DecryptLoop(_, _, _, _, _)
RECURSIVE DecryptNext(_, _, _, _, _, _)

\* "for char in chars: m += chr(self.decrypt_char(dst, char))"
DecryptLoop(s, dst, chars, i, m) ==
    IF i > Len(chars) THEN Return(m)
    ELSE DecryptNext(decrypt_char(s, dst, chars[i]), s, dst, chars, i, m)

\* the loop after the decryption d of the i-th character
DecryptNext(d, s, dst, chars, i, m) ==
    IF ~d.ok THEN d
    ELSE DecryptLoop(s, dst, chars, i + 1, Append(m, d.val))

\* receive_message ending with "self.message_queue.pop(0)"
ReceiveDecryptedFront(s, dec, i) ==
    IF ~dec.ok THEN Outcome(s, dec)
    ELSE IF i = 0 THEN Outcome(s, Raise("AttributeError"))
    ELSE IF s.message_queue = <<>>
    THEN Outcome([s EXCEPT
                    !.users[i].received_messages = Append(@, dec.val),
                    !.users[i].nb_received_messages = @ + 1],
                 Raise("IndexError"))
    ELSE Outcome([s EXCEPT
                    !.users[i].received_messages = Append(@, dec.val),
                    !.users[i].nb_received_messages = @ + 1,
                    !.message_queue = Tail(@)],
                 Return(dec.val))

\* ElGamal.receive_message after its loop: dec is the loop's outcome and i
\* the position of dst_user (0 for None)
ReceiveDecrypted(s, dec, i) ==
    IF ~dec.ok THEN Outcome(s, dec)
    ELSE IF i = 0 THEN Outcome(s, Raise("AttributeError"))
    ELSE IF s.message_queue = <<>>
    THEN Outcome([s EXCEPT
                    !.users[i].received_messages = Append(@, dec.val),
                    !.users[i].nb_received_messages = @ + 1],
                 Raise("IndexError"))
    ELSE Outcome([s EXCEPT
                    !.users[i].received_messages = Append(@, dec.val),
                    !.users[i].nb_received_messages = @ + 1,
                    !.message_queue = SubSeq(@, 1, Len(@) - 1)],
                 Return(dec.val))

\* ElGamal.receive_message
receive_message(s, dst, encrypted) ==
    IF ~username_passes(s, dst) THEN Outcome(s, Raise("name is empty"))
    ELSE IF ~user_exists(s, dst) THEN Outcome(s, Raise("not in user list"))
    ELSE ReceiveDecrypted(s, DecryptLoop(s, dst, encrypted[2], 1, <<>>),
                          FirstUser(s, dst))

----------------------------------------------------------------------------
(* Attacker *)

BRUTE_FORCE == 0
SHANKS_BSGS == 1

\* self.attacks[attack_type.value](p, g, b)
Attack(attack_type, pp, gg, b) ==
    IF attack_type = BRUTE_FORCE THEN brute_force(pp, gg, b)
    ELSE shanks_bsgs(pp, gg, b)

\* intercept_message reading "self.cs.message_queue[0]"
InterceptedFront(queue) == queue[1]

\* the entry of the queue that intercept_message reads
InterceptedEntry(queue) == queue[Len(queue)]

RECURSIVE InterceptLoop(_, _, _, _, _)
\* "for c1, c2 in message: decrypted_message += chr(...)"
InterceptLoop(s, message, receiver_sk, i, m) ==
    IF i > Len(message) THEN m
    ELSE LET c1 == message[i][1]
             c2 == message[i][2]
         IN  InterceptLoop(s, message, receiver_sk, i + 1,
                 Append(m, (c2 * get_inverse(ModPow(c1, receiver_sk, s.p), s.p))
                           % s.p))

\* intercept_message appending "(dst, src, decrypted_message)"
InterceptEntrySwapped(s, log, attack_type, entry) ==
    IF ~get_user_pk(s, entry[1]).ok
    THEN [log |-> log, ret |-> get_user_pk(s, entry[1])]
    ELSE IF Attack(attack_type, s.p, s.g, s.pks[entry[1]]) < 0
            /\ entry[2][2] # <<>>
    THEN [log |-> log, ret |-> Raise("TypeError")]
    ELSE [log |-> Append(log,
                    <<entry[1], entry[2][1],
                      InterceptLoop(s, entry[2][2],
                          Attack(attack_type, s.p, s.g, s.pks[entry[1]]),
                          1, <<>>)>>),
          ret |-> Return(InterceptLoop(s, entry[2][2],
                          Attack(attack_type, s.p, s.g, s.pks[entry[1]]),
                          1, <<>>))]

\* Attacker.intercept_message once it has read entry from the queue: the
\* outcome and the intercepted log after it
InterceptEntry(s, log, attack_type, entry) ==
    IF ~get_user_pk(s, entry[1]).ok
    THEN [log |-> log, ret |-> get_user_pk(s, entry[1])]
    ELSE IF Attack(attack_type, s.p, s.g, s.pks[entry[1]]) < 0
            /\ entry[2][2] # <<>>
    THEN [log |-> log, ret |-> Raise("TypeError")]
    ELSE [log |-> Append(log,
                    <<entry[2][1], entry[1],
                      InterceptLoop(s, entry[2][2],
                          Attack(attack_type, s.p, s.g, s.pks[entry[1]]),
                          1, <<>>)>>),
          ret |-> Return(InterceptLoop(s, entry[2][2],
                          Attack(attack_type, s.p, s.g, s.pks[entry[1]]),
                          1, <<>>))]

\* Attacker.intercept_message
intercept_message(s, log, attack_type) ==
    IF s.message_queue = <<>> THEN [log |-> log, ret |-> Raise("IndexError")]
    ELSE InterceptEntry(s, log, attack_type, InterceptedEntry(s.message_queue))

----------------------------------------------------------------------------
(* The running system: an ElGamal instance over a prime p and a generator  *)
(* g of (Z/pZ)x, an attacker on it, and a caller that makes one call at a  *)
(* time.                                                                   *)

Names == {"A", "B"}

\* the names a caller of the directory passes: the empty name as well
AllNames == Names \cup {""}

\* the (p, g) of the running systems: the prime moduli up to MaxSysP with a
\* generator of the multiplicative group, as the constructor stores them
Groups ==
    {pg \in (2..MaxSysP) \X (1..MaxSysP) :
        /\ pg[2] < pg[1]
        /\ Construct(pg[1], pg[2], FALSE).ok}

\* randint(1, self.p - 1)
Keys == 1..(p - 1)

\* the code points a caller passes for a character: every value up to the
\* first one that _is_valid_char rejects
Ords == 0..(p + 1)

\* the plaintexts a caller sends: empty, two symbols below p, the symbol of
\* ordinal p, and a symbol that is too large after one that is not
Plaintexts == {<<>>, <<p - 1, 1>>, <<p>>, <<1, p + 1>>}

KeyDraws(m) == [1..Len(m) -> Keys]

\* the (dst, encrypted) a caller hands to receive_message: a queued message
\* with its recipient (main.py: the receiver and the encr_message of a
\* send_message)
Deliveries ==
    {<<message_queue[i][1], message_queue[i][2]>> :
        i \in 1..Len(message_queue)}

\* the encrypted characters a caller hands to decrypt_char: what
\* encrypt_char has just returned, and the characters of the queued messages
CipherChars ==
    UNION {{message_queue[i][2][2][k] : k \in 1..Len(message_queue[i][2][2])} :
             i \in 1..Len(message_queue)}
    \cup (IF call = "encrypt_char" /\ ret.ok THEN {ret.val} ELSE {})

Bounded(s) ==
    /\ Len(s.users) <= MaxUsers
    /\ Len(s.message_queue) <= MaxQueue
    /\ \A i \in 1..Len(s.users) :
          /\ Len(s.users[i].sent_messages) <= MaxLog
          /\ Len(s.users[i].received_messages) <= MaxLog

SetCS(s) ==
    /\ p' = s.p
    /\ g' = s.g
    /\ debug' = s.debug
    /\ pks' = s.pks
    /\ users' = s.users
    /\ nb_users' = s.nb_users
    /\ message_queue' = s.message_queue

\* the attributes of a constructed ElGamal object
SetVars(s) ==
    /\ p = s.p
    /\ g = s.g
    /\ debug = s.debug
    /\ pks = s.pks
    /\ users = s.users
    /\ nb_users = s.nb_users
    /\ message_queue = s.message_queue

Init ==
    \E pg \in Groups, dbg \in {FALSE} :
        LET new == Construct(pg[1], pg[2], dbg)
        IN  /\ new.ok
            /\ p = new.val.p
            /\ g = new.val.g
            /\ debug = new.val.debug
            /\ pks = new.val.pks
            /\ users = new.val.users
            /\ nb_users = new.val.nb_users
            /\ message_queue = new.val.message_queue
            /\ intercepted_messages = <<>>
            /\ input = <<>>
            /\ call = "__init__"
            /\ ret = Return("None")

\* One action per operation: the call with its arguments and random draws,
\* the state it leaves and its outcome.

AddUserCall(name, sk) ==
    \E o \in {add_user(CS, name, sk)} :
        /\ Bounded(o.cs)
        /\ SetCS(o.cs)
        /\ call' = "add_user"
        /\ ret' = o.ret
        /\ UNCHANGED <<intercepted_messages, input>>

RemoveUserCall(name) ==
    \E o \in {remove_user(CS, name)} :
        /\ SetCS(o.cs)
        /\ call' = "remove_user"
        /\ ret' = o.ret
        /\ UNCHANGED <<intercepted_messages, input>>

GetUserCall(name) ==
    /\ call' = "get_user"
    /\ ret' = get_user(CS, name)
    /\ UNCHANGED <<csvars, intercepted_messages, input>>

GetUserPkCall(name) ==
    /\ call' = "get_user_pk"
    /\ ret' = get_user_pk(CS, name)
    /\ UNCHANGED <<csvars, intercepted_messages, input>>

GetNewSkCall(name, new_sk) ==
    \E o \in {get_new_sk(CS, name, new_sk)} :
        /\ SetCS(o.cs)
        /\ call' = "get_new_sk"
        /\ ret' = o.ret
        /\ UNCHANGED <<intercepted_messages, input>>

EncryptCharCall(src, dst, ch, k) ==
    \E o \in {encrypt_char(CS, src, dst, ch, k)} :
        /\ SetCS(o.cs)
        /\ call' = "encrypt_char"
        /\ ret' = o.ret
        /\ UNCHANGED <<intercepted_messages, input>>

DecryptCharCall(dst, char) ==
    /\ call' = "decrypt_char"
    /\ ret' = decrypt_char(CS, dst, char)
    /\ UNCHANGED <<csvars, intercepted_messages, input>>

SendMessageCall(src, dst, m, ks) ==
    \E o \in {send_message(CS, src, dst, m, ks)} :
        /\ Bounded(o.cs)
        /\ SetCS(o.cs)
        /\ call' = "send_message"
        /\ ret' = o.ret
        /\ UNCHANGED <<intercepted_messages, input>>

ReceiveMessageCall(dst, encrypted) ==
    \E o \in {receive_message(CS, dst, encrypted)} :
        /\ Bounded(o.cs)
        /\ SetCS(o.cs)
        /\ call' = "receive_message"
        /\ ret' = o.ret
        /\ UNCHANGED <<intercepted_messages, input>>

InterceptMessageCall(attack_type) ==
    \E o \in {intercept_message(CS, intercepted_messages, attack_type)} :
        /\ Len(o.log) <= MaxLog
        /\ intercepted_messages' = o.log
        /\ call' = "intercept_message"
        /\ ret' = o.ret
        /\ UNCHANGED <<csvars, input>>

AddUser == \E name \in Names, sk \in Keys : AddUserCall(name, sk)

RemoveUser == \E name \in Names : RemoveUserCall(name)

GetUser == \E name \in AllNames : GetUserCall(name)

GetUserPk == \E name \in AllNames : GetUserPkCall(name)

GetNewSk == \E name \in Names, new_sk \in Keys : GetNewSkCall(name, new_sk)

EncryptChar ==
    \E src \in Names, dst \in Names, ch \in Ords, k \in Keys :
        EncryptCharCall(src, dst, ch, k)

DecryptChar ==
    \E dst \in Names, char \in CipherChars : DecryptCharCall(dst, char)

SendMessage ==
    \E src \in Names, dst \in Names, m \in Plaintexts :
        \E ks \in KeyDraws(m) : SendMessageCall(src, dst, m, ks)

ReceiveMessage == \E d \in Deliveries : ReceiveMessageCall(d[1], d[2])

InterceptMessage ==
    \E attack_type \in {BRUTE_FORCE, SHANKS_BSGS} :
        InterceptMessageCall(attack_type)

\* send_message while at most MaxPending messages wait in the queue; the
\* one-character text of ordinal p is left to SendMessage
SendOne ==
    \E src \in Names, dst \in Names, m \in Plaintexts \ {<<p>>} :
        \E ks \in KeyDraws(m) :
            /\ SendMessageCall(src, dst, m, ks)
            /\ Len(message_queue') <= MaxPending

\* The directory and the messages: users come and go, keys rotate, messages
\* are sent and received.
Next ==
    \/ AddUser
    \/ RemoveUser
    \/ GetNewSk
    \/ SendOne
    \/ ReceiveMessage

Spec == Init /\ [][Next]_vars

\* Single characters: encrypt_char and decrypt_char called directly.
NextChar ==
    \/ AddUser
    \/ RemoveUser
    \/ GetNewSk
    \/ EncryptChar
    \/ DecryptChar

SpecChar == Init /\ [][NextChar]_vars

\* The queue and the attacker: messages are sent, received and intercepted.
NextQueue ==
    \/ AddUser
    \/ SendMessage
    \/ ReceiveMessage
    \/ InterceptMessage

SpecQueue == Init /\ [][NextQueue]_vars

\* The directory, with the debug flag set or not and the empty name among
\* the names: users are added, looked up and removed, and keys rotate.
InitAnyDebug ==
    \E pg \in Groups, dbg \in BOOLEAN :
        \E new \in {Construct(pg[1], pg[2], dbg)} :
            /\ new.ok
            /\ SetVars(new.val)
            /\ intercepted_messages = <<>>
            /\ input = <<>>
            /\ call = "__init__"
            /\ ret = Return("None")

AddAnyUser == \E name \in AllNames, sk \in Keys : AddUserCall(name, sk)

RemoveAnyUser == \E name \in AllNames : RemoveUserCall(name)

GetAnyNewSk ==
    \E name \in AllNames, new_sk \in Keys : GetNewSkCall(name, new_sk)

NextDirectory ==
    \/ AddAnyUser
    \/ RemoveAnyUser
    \/ GetUser
    \/ GetUserPk
    \/ GetAnyNewSk

SpecDirectory == InitAnyDebug /\ [][NextDirectory]_vars

----------------------------------------------------------------------------
(* The caller of main.py: it registers each name once, keeps the receiver, *)
(* the encr_message and the message of a send_message, and hands them to   *)
(* receive_message. input holds what it keeps, with the receiver's public  *)
(* key as read when the message was sent.                                  *)

Kept == input # <<>>

KeptReceiver == input[1]
KeptEncrMessage == input[2]
KeptMessage == input[3]
KeptReceiverPk == input[4]

\* eg.add_user(username) for each generated username
Register ==
    \E name \in Names, sk \in Keys :
        /\ name \notin DOMAIN pks
        /\ AddUserCall(name, sk)

\* the messages the caller sends: two symbols below p, and the symbol of
\* ordinal p
CallerMessages == {<<p - 1, 1>>, <<p>>}

\* encr_message = eg.send_message(sender, receiver, message), the receiver
\* chosen different from the sender
SendAndKeep ==
    \E src \in Names, m \in CallerMessages :
        \E dst \in Names \ {src}, ks \in KeyDraws(m) :
            \E o \in {send_message(CS, src, dst, m, ks)} :
                /\ Bounded(o.cs)
                /\ SetCS(o.cs)
                /\ call' = "send_message"
                /\ ret' = o.ret
                /\ input' = IF o.ret.ok
                            THEN <<dst, o.ret.val, m, pks[dst]>>
                            ELSE input
                /\ UNCHANGED intercepted_messages

\* eg.receive_message(receiver, encr_message)
ReceiveKept ==
    /\ Kept
    /\ ReceiveMessageCall(KeptReceiver, KeptEncrMessage)

NextCaller ==
    \/ Register
    \/ GetNewSk
    \/ SendAndKeep
    \/ ReceiveKept

SpecCaller == Init /\ [][NextCaller]_vars

----------------------------------------------------------------------------
(* Construction: ElGamal(pp, gg) for every modulus and generator in range *)

NoInstance ==
    /\ p = 0
    /\ g = 0
    /\ debug = FALSE
    /\ pks = <<>>
    /\ users = <<>>
    /\ nb_users = 0
    /\ message_queue = <<>>
    /\ intercepted_messages = <<>>

GroupInit ==
    /\ NoInstance
    /\ input \in ((-1)..MaxP) \X ((-1)..MaxG)
    /\ call = "none"
    /\ ret = Return("None")

New ==
    /\ call = "none"
    /\ \E new \in {Construct(input[1], input[2], FALSE)} :
          /\ call' = "__init__"
          /\ ret' = IF new.ok THEN Return("None") ELSE new
          /\ IF new.ok THEN SetCS(new.val) ELSE UNCHANGED csvars
          /\ UNCHANGED <<intercepted_messages, input>>

SpecGroup == GroupInit /\ [][New]_vars

----------------------------------------------------------------------------
(* The solvers: brute_force and shanks_bsgs on (p, g, b) for every prime p *)
(* up to MaxSolveP, every generator g of (Z/pZ)x and every residue b       *)

SolverInputs ==
    {in \in (2..MaxSolveP) \X (1..MaxSolveP) \X (0..MaxSolveP) :
        /\ in[2] < in[1]
        /\ in[3] < in[1]
        /\ Construct(in[1], in[2], FALSE).ok}

SolveInit ==
    /\ NoInstance
    /\ input \in SolverInputs
    /\ call = "none"
    /\ ret = Return("None")

BruteForce ==
    /\ call = "none"
    /\ call' = "brute_force"
    /\ ret' = Return(brute_force(input[1], input[2], input[3]))
    /\ UNCHANGED <<csvars, intercepted_messages, input>>

ShanksBsgs ==
    /\ call = "none"
    /\ call' = "shanks_bsgs"
    /\ ret' = Return(shanks_bsgs(input[1], input[2], input[3]))
    /\ UNCHANGED <<csvars, intercepted_messages, input>>

SpecSolve == SolveInit /\ [][BruteForce \/ ShanksBsgs]_vars

----------------------------------------------------------------------------
(* helpers.find_prime_above on every n in 0..MaxN                          *)

RECURSIVE NoDivisorFrom(_, _)
\* "for j in range(2, i): if (i % j) == 0: break" runs from j to its end
\* without the break
NoDivisorFrom(i, j) ==
    IF j >= i THEN TRUE
    ELSE IF i % j = 0 THEN FALSE
    ELSE NoDivisorFrom(i, j + 1)

RECURSIVE FindPrimeFrom(_, _)
\* "for i in range(n, 2 * n)" from i on, "return -1" after it
FindPrimeFrom(n, i) ==
    IF i >= 2 * n THEN -1
    ELSE IF NoDivisorFrom(i, 2) THEN i
    ELSE FindPrimeFrom(n, i + 1)

find_prime_above(n) == FindPrimeFrom(n, n)

PrimeInit ==
    /\ NoInstance
    /\ input \in {<<n>> : n \in 0..MaxN}
    /\ call = "none"
    /\ ret = Return("None")

FindPrimeAbove ==
    /\ call = "none"
    /\ call' = "find_prime_above"
    /\ ret' = Return(find_prime_above(input[1]))
    /\ UNCHANGED <<csvars, intercepted_messages, input>>

SpecPrime == PrimeInit /\ [][FindPrimeAbove]_vars

----------------------------------------------------------------------------
(* Properties                                                               *)

\* The solver's problem: the modulus, the generator and the target
SolveP == input[1]
SolveG == input[2]
SolveB == input[3]

\* The exponents x in [1, p-1] with g^x mod p = b
Exponents(pp, gg, b) == {x \in 1..(pp - 1) : ModPow(gg, x, pp) = b}

IsPrime(n) == n >= 2 /\ \A d \in 2..(n - 1) : n % d # 0

\* The powers g^1 .. g^(p-1) mod p
Powers(pp, gg) == {ModPow(gg, i, pp) : i \in 1..(pp - 1)}

\* g generates (Z/pZ)x: its powers are exactly the residues 1 .. p-1
IsGenerator(pp, gg) == Powers(pp, gg) = 1..(pp - 1)

\* A user object of that name is in the directory
Registered(name) == \E i \in 1..Len(users) : users[i].name = name

\* C1: for a prime p, a generator g and b = g^x mod p with x in [1, p-1],
\* brute_force(p, g, b) returns x, the first exponent in [1, p-1] whose power
\* is b.
C1_BruteForceReturnsExponent ==
    call = "brute_force" =>
        \A x \in Exponents(SolveP, SolveG, SolveB) : ret = Return(x)

\* brute_force has recovered the largest exponent, p - 1, of a group with
\* more than two residues
C1_Witness ==
    /\ call = "brute_force"
    /\ SolveP > 3
    /\ SolveP - 1 \in Exponents(SolveP, SolveG, SolveB)
    /\ ret = Return(SolveP - 1)

\* C2 as stated: for a prime p, a generator g and b = g^x mod p with x in
\* [1, p-1], shanks_bsgs(p, g, b) returns x, the exponent x = p - 1 (target 1)
\* included.
C2_ShanksReturnsExponent ==
    call = "shanks_bsgs" =>
        \A x \in Exponents(SolveP, SolveG, SolveB) : ret = Return(x)

\* C2: for a prime p, a generator g and b = g^x mod p with x in [1, p-1],
\* shanks_bsgs(p, g, b) returns x mod (p - 1): x itself for x <= p - 2, and 0
\* for x = p - 1 (target 1).
C2_ShanksReturnsReducedExponent ==
    call = "shanks_bsgs" =>
        \A x \in Exponents(SolveP, SolveG, SolveB) :
            ret = Return(x % (SolveP - 1))

\* shanks_bsgs has answered 0 for the target 1 = g^(p-1) of a group with more
\* than two residues
C2_Witness ==
    /\ call = "shanks_bsgs"
    /\ SolveP > 3
    /\ SolveP - 1 \in Exponents(SolveP, SolveG, SolveB)
    /\ ret = Return(0)

\* C3: between registered users src # dst, a non-empty message whose
\* characters all have ordinals below p is sent successfully, and
\* receive_message(dst, send_message(src, dst, m)) returns m.
C3_MessageRoundTrip ==
    \A src \in Names, dst \in Names, m \in Plaintexts :
        (/\ Registered(src)
         /\ Registered(dst)
         /\ src # dst
         /\ m # <<>>
         /\ \A i \in 1..Len(m) : m[i] < p)
        => \A ks \in KeyDraws(m) :
              \E sent \in {send_message(CS, src, dst, m, ks)} :
                  /\ sent.ret.ok
                  /\ receive_message(sent.cs, dst, sent.ret.val).ret
                        = Return(m)

\* C4: between registered users, a character of ordinal below p encrypted by
\* encrypt_char(src, dst, ch) is given back by decrypt_char(dst, .).
C4_CharRoundTrip ==
    \A src \in Names, dst \in Names, ch \in Ords, k \in Keys :
        (Registered(src) /\ Registered(dst) /\ ch < p)
        => \E enc \in {encrypt_char(CS, src, dst, ch, k)} :
              /\ enc.ret.ok
              /\ decrypt_char(enc.cs, dst, enc.ret.val) = Return(ch)

\* A fresh system in which two users were registered and the first message
\* was just sent: nothing else was sent, received or intercepted.
AfterFirstSend ==
    /\ call = "send_message"
    /\ ret.ok
    /\ Len(users) = 2
    /\ users[1].name # users[2].name
    /\ Len(message_queue) = 1
    /\ intercepted_messages = <<>>
    /\ Len(users[1].sent_messages) + Len(users[2].sent_messages) = 1
    /\ users[1].received_messages = <<>>
    /\ users[2].received_messages = <<>>

\* The message of AfterFirstSend: its sender, its recipient and its text
FirstSender == ret.val[1]
FirstRecipient == message_queue[1][1]
FirstText == users[FirstUser(CS, FirstSender)].sent_messages[1]

\* C5: on a fresh system with users A and B, after send_message(A, B, m) one
\* interception with the brute-force attack returns m, and the attacker's log
\* then holds exactly the one record (A, B, m).
C5_InterceptionRecoversMessage ==
    AfterFirstSend =>
        \E o \in {intercept_message(CS, intercepted_messages, BRUTE_FORCE)} :
            /\ o.ret = Return(FirstText)
            /\ o.log = << <<FirstSender, FirstRecipient, FirstText>> >>

\* The two ends of the queue: send_message inserts at the front
NewestEntry == message_queue[1]
OldestEntry == message_queue[Len(message_queue)]

\* The two ends of the queue hold messages of different conversations
EndsDiffer ==
    /\ Len(message_queue) >= 2
    /\ <<NewestEntry[1], NewestEntry[2][1]>>
          # <<OldestEntry[1], OldestEntry[2][1]>>

\* receive_message takes the oldest entry off the queue
ReceiveTakesOldest ==
    \A d \in Deliveries :
        \E r \in {receive_message(CS, d[1], d[2])} :
            r.ret.ok =>
                r.cs.message_queue
                    = SubSeq(message_queue, 1, Len(message_queue) - 1)

\* C6 as stated: with several messages queued, intercept_message reads the
\* most recently enqueued entry, the end opposite to the one receive_message
\* removes.
C6_InterceptReadsNewest ==
    Len(message_queue) >= 2 =>
        /\ \A a \in {BRUTE_FORCE, SHANKS_BSGS} :
              intercept_message(CS, intercepted_messages, a)
                  = InterceptEntry(CS, intercepted_messages, a, NewestEntry)
        /\ ReceiveTakesOldest

\* C6: with several messages queued, intercept_message reads, without
\* removing it, the oldest entry of the queue: the very entry the next
\* receive_message removes.
C6_InterceptReadsOldest ==
    /\ [](Len(message_queue) >= 2 =>
            /\ \A a \in {BRUTE_FORCE, SHANKS_BSGS} :
                  intercept_message(CS, intercepted_messages, a)
                      = InterceptEntry(CS, intercepted_messages, a,
                                       OldestEntry)
            /\ ReceiveTakesOldest)
    /\ [][call' = "intercept_message" => UNCHANGED csvars]_vars

\* An interception has just recorded the oldest of two queued messages of
\* different conversations, and the queue still holds both
C6_Witness ==
    /\ call = "intercept_message"
    /\ ret.ok
    /\ EndsDiffer
    /\ intercepted_messages # <<>>
    /\ \E rec \in {intercepted_messages[Len(intercepted_messages)]} :
          <<rec[2], rec[1]>> = <<OldestEntry[1], OldestEntry[2][1]>>

\* C7: after any sequence of add_user, remove_user, get_new_sk, send_message
\* and receive_message, every registered user's secret key lies in [1, p-1]
\* and the directory's public key for that user is g^sk mod p.
C7_KeyPairs ==
    \A i \in 1..Len(users) :
        /\ users[i].sk \in 1..(p - 1)
        /\ users[i].name \in DOMAIN pks
        /\ pks[users[i].name] = ModPow(g, users[i].sk, p)

\* The parameters ElGamal(pp, gg) was called with
NewP == input[1]
NewG == input[2]

\* p is prime, 2 <= g < p and g generates (Z/pZ)x
GroupInvariant(pp, gg) ==
    /\ IsPrime(pp)
    /\ 2 <= gg
    /\ gg < pp
    /\ IsGenerator(pp, gg)

\* C8: a constructed instance has a prime p and a generator g of (Z/pZ)x with
\* 2 <= g < p; for parameters that violate this (a generator being taken
\* modulo p), p = 1 and p = 2 included, the construction raises.
C8_GroupParameters ==
    call = "__init__" =>
        /\ ret.ok => GroupInvariant(p, g)
        /\ ~(NewP >= 1 /\ NewG >= 1 /\ GroupInvariant(NewP, NewG % NewP))
              => ~ret.ok

\* The powers g^1 .. g^(p-1) mod p are p - 1 distinct non-zero residues
DistinctNonZeroPowers(pp, gg) ==
    /\ 0 \notin Powers(pp, gg)
    /\ Cardinality(Powers(pp, gg)) = pp - 1

\* C9: for a prime p, the generator check raises when g <= 0 or when the
\* powers g^1 .. g^(p-1) mod p are not p - 1 distinct non-zero residues;
\* otherwise it passes, g >= p included, and the instance stores g mod p.
C9_GeneratorCheck ==
    (call = "__init__" /\ IsPrime(NewP)) =>
        IF NewG > 0 /\ DistinctNonZeroPowers(NewP, NewG)
        THEN ret.ok /\ p = NewP /\ g = NewG % NewP
        ELSE ~ret.ok

\* The name was never registered: add_user alone enters a name in pks and
\* nothing takes one out
NeverRegistered(name) == name \notin DOMAIN pks

\* C10: send_message raises and leaves the whole system unchanged when the
\* plaintext is empty, when the sender or the recipient was never
\* registered, or when the sender is the recipient.
C10_SendRejected ==
    \A src \in Names, dst \in Names, m \in Plaintexts :
        (\/ m = <<>>
         \/ NeverRegistered(src)
         \/ NeverRegistered(dst)
         \/ src = dst)
        => \A ks \in KeyDraws(m) :
              \E o \in {send_message(CS, src, dst, m, ks)} :
                  /\ ~o.ret.ok
                  /\ o.cs = CS

\* A registered user's message to themselves has just been refused, with
\* another user registered as well
C10_Witness ==
    /\ call = "send_message"
    /\ ret = Raise("sender and receiver are the same")
    /\ Len(users) = 2
    /\ users[1].name # users[2].name

\* The failures of the validation checks (_is_valid_*, _user_exists)
ValidationErrors ==
    {"name is empty", "not in user list", "message is empty",
     "sender and receiver are the same", "greater than p",
     "private key is negative"}

\* C11: an operation that fails a validation check leaves the whole state as
\* it was before the call; so a send_message that fails on a character of
\* ordinal above p leaves the sender's keys, the logs and the queue unchanged.
C11_FailureChangesNothing ==
    [][(~ret'.ok /\ ret'.val \in ValidationErrors)
         => UNCHANGED <<csvars, intercepted_messages>>]_vars

\* C12: add_user with the empty name fails and registers nothing, whatever
\* the debug flag of the system is.
C12_EmptyNameRejected ==
    \A sk \in Keys : add_user(CS, "", sk) = Outcome(CS, Raise("name is empty"))

\* The system but for its debug flag
WithDebug(s, dbg) == [s EXCEPT !.debug = dbg]

\* Two outcomes with the same return value or failure and the same state but
\* for the debug flag
SameButDebug(o1, o2) ==
    /\ o1.ret = o2.ret
    /\ WithDebug(o1.cs, FALSE) = WithDebug(o2.cs, FALSE)

\* The system with the other value of the debug flag
Twin == WithDebug(CS, ~debug)

\* C13: two systems that differ only in the debug flag and were driven by the
\* same calls and key draws (no call has registered the empty name, so both
\* are in this state but for the flag) give the same return value or failure
\* and the same state on the next call.
C13_DebugIsNoInput ==
    "" \notin DOMAIN pks =>
        \A name \in AllNames, sk \in Keys :
            /\ SameButDebug(add_user(CS, name, sk), add_user(Twin, name, sk))
            /\ SameButDebug(remove_user(CS, name), remove_user(Twin, name))
            /\ SameButDebug(get_new_sk(CS, name, sk),
                            get_new_sk(Twin, name, sk))
            /\ get_user(CS, name) = get_user(Twin, name)
            /\ get_user_pk(CS, name) = get_user_pk(Twin, name)

\* The name was registered and every user object of that name was removed
Removed(name) == name \in DOMAIN pks /\ ~Registered(name)

\* C14: once remove_user has removed a registered name, get_user,
\* get_user_pk, get_new_sk, remove_user and send_message to or from that name
\* fail with the unknown-user error.
C14_RemovedIsUnknown ==
    \A name \in Names :
        Removed(name) =>
            /\ get_user(CS, name) = Raise("not in user list")
            /\ get_user_pk(CS, name) = Raise("not in user list")
            /\ remove_user(CS, name).ret = Raise("not in user list")
            /\ \A sk \in Keys :
                  get_new_sk(CS, name, sk).ret = Raise("not in user list")
            /\ \A other \in Names, m \in Plaintexts \ {<<>>} :
                  \A ks \in KeyDraws(m) :
                      /\ send_message(CS, name, other, m, ks).ret
                            = Raise("not in user list")
                      /\ send_message(CS, other, name, m, ks).ret
                            = Raise("not in user list")

\* A name that no call registers
Stranger == "C"

\* C15: for a name that was never registered, get_user, get_user_pk,
\* remove_user, get_new_sk and receive_message each raise the unknown-user
\* error and leave the state unchanged.
C15_UnknownUserRejected ==
    \A name \in Names \cup {Stranger} :
        NeverRegistered(name) =>
            /\ get_user(CS, name) = Raise("not in user list")
            /\ get_user_pk(CS, name) = Raise("not in user list")
            /\ remove_user(CS, name) = Outcome(CS, Raise("not in user list"))
            /\ \A sk \in Keys :
                  get_new_sk(CS, name, sk)
                      = Outcome(CS, Raise("not in user list"))
            /\ \A i \in 1..Len(message_queue) :
                  receive_message(CS, name, message_queue[i][2])
                      = Outcome(CS, Raise("not in user list"))

\* remove_user of a name that was never registered has just been refused on
\* a system that has a user
C15_Witness ==
    /\ call = "remove_user"
    /\ ret = Raise("not in user list")
    /\ users # <<>>
    /\ \E name \in Names : NeverRegistered(name)

\* C16: for a registered name, get_new_sk(name) returns the drawn secret s in
\* [1, p-1], sets the sk of that user to s, makes get_user_pk(name) equal to
\* g^s mod p and leaves every other user's keys, all logs and the queue
\* unchanged.
C16_Rotation ==
    \A name \in Names :
        Registered(name) =>
            \A sk \in Keys :
                \E o \in {get_new_sk(CS, name, sk)} :
                    /\ o.ret = Return(sk)
                    /\ sk \in 1..(p - 1)
                    /\ o.cs.users =
                          [users EXCEPT ![FirstUser(CS, name)].sk = sk]
                    /\ get_user_pk(o.cs, name) = Return(ModPow(g, sk, p))
                    /\ DOMAIN o.cs.pks = DOMAIN pks
                    /\ \A other \in DOMAIN pks \ {name} :
                          o.cs.pks[other] = pks[other]
                    /\ [o.cs EXCEPT !.users = users, !.pks = pks] = CS

\* get_new_sk has just rotated the key of one of two users while a message
\* waits in the queue: that user holds the returned secret and the directory
\* its power
C16_Witness ==
    /\ call = "get_new_sk"
    /\ ret.ok
    /\ Len(users) = 2
    /\ users[1].name # users[2].name
    /\ message_queue # <<>>
    /\ \E i \in 1..2 :
          /\ users[i].sk = ret.val
          /\ pks[users[i].name] = ModPow(g, ret.val, p)

\* C17 as stated: for a registered name, get_user_pk(name) after
\* get_new_sk(name) differs from get_user_pk(name) before it, whatever secret
\* is drawn.
C17_RotationChangesPk ==
    \A name \in AllNames :
        Registered(name) =>
            \A sk \in Keys :
                get_user_pk(get_new_sk(CS, name, sk).cs, name)
                    # get_user_pk(CS, name)

\* C17: for a registered name, get_user_pk(name) after get_new_sk(name) is
\* g^s mod p for the drawn secret s; it differs from the public key before
\* the call exactly when g^s mod p does, and a draw of the secret that the
\* directory's key belongs to leaves it as it was.
C17_RotationSetsPk ==
    \A name \in AllNames :
        Registered(name) =>
            \A sk \in Keys :
                \E after \in {get_user_pk(get_new_sk(CS, name, sk).cs, name)} :
                    /\ after = Return(ModPow(g, sk, p))
                    /\ (after # get_user_pk(CS, name))
                          <=> (ModPow(g, sk, p) # pks[name])
                    /\ pks[name] = ModPow(g, sk, p)
                          => after = get_user_pk(CS, name)

\* get_new_sk has just drawn, for one of two users, a secret whose power is
\* the public key in the directory
C17_Witness ==
    /\ call = "get_new_sk"
    /\ ret.ok
    /\ Len(users) = 2
    /\ \E i \in 1..2 :
          /\ users[i].sk = ret.val
          /\ FirstUser(CS, users[i].name) = i
          /\ pks[users[i].name] = ModPow(g, ret.val, p)

\* The keys of a name in state s: the secret of its user object and the
\* public key of the directory
KeysOf(s, name) == <<s.users[FirstUser(s, name)].sk, s.pks[name]>>

\* C18: for registered users and a character that passes the check,
\* encrypt_char(src, dst, ch) replaces the sender's secret key by the drawn k
\* in [1, p-1] and returns (c1, c2) with c1 = g^k mod p, the sender's public
\* key after the call, and c2 = ord(ch) * pk(dst)^k mod p; a message of n
\* characters rotates the sender's key once per character (symbol i carries
\* g^k of the i-th draw, the last draw is the sender's key afterwards) and
\* leaves the recipient's keys untouched.
C18_EncryptRotates ==
    /\ \A src \in Names, dst \in Names, ch \in Ords, k \in Keys :
          (Registered(src) /\ Registered(dst) /\ ch <= p)
          => \E e \in {encrypt_char(CS, src, dst, ch, k)} :
                /\ e.ret.ok
                /\ k \in 1..(p - 1)
                /\ KeysOf(e.cs, src) = <<k, ModPow(g, k, p)>>
                /\ e.ret.val[1] = ModPow(g, k, p)
                /\ e.ret.val[2] = (ch * ModPow(e.cs.pks[dst], k, p)) % p
                /\ src # dst => KeysOf(e.cs, dst) = KeysOf(CS, dst)
    /\ \A src \in Names, dst \in Names, m \in Plaintexts :
          (/\ Registered(src)
           /\ Registered(dst)
           /\ src # dst
           /\ m # <<>>
           /\ \A i \in 1..Len(m) : m[i] <= p)
          => \A ks \in KeyDraws(m) :
                \E o \in {send_message(CS, src, dst, m, ks)} :
                    /\ o.ret.ok
                    /\ Len(o.ret.val[2]) = Len(m)
                    /\ \A i \in 1..Len(m) :
                          o.ret.val[2][i][1] = ModPow(g, ks[i], p)
                    /\ KeysOf(o.cs, src)
                          = <<ks[Len(m)], ModPow(g, ks[Len(m)], p)>>
                    /\ KeysOf(o.cs, dst) = KeysOf(CS, dst)

\* encrypt_char has just encrypted a non-zero character between two users:
\* the first symbol is the public key of a user who holds a secret for it
C18_Witness ==
    /\ call = "encrypt_char"
    /\ ret.ok
    /\ Len(users) = 2
    /\ users[1].name # users[2].name
    /\ ret.val[2] # 0
    /\ \E i \in 1..2 :
          /\ pks[users[i].name] = ret.val[1]
          /\ ModPow(g, users[i].sk, p) = ret.val[1]

\* C19: a successful send_message(src, dst, m) appends m to the sender's sent
\* log, adds 1 to the sender's sent counter, appends dst to the sender's
\* connections, inserts the one entry (dst, (src, symbols)) at index 0 of the
\* queue with as many symbols as m has characters, returns (src, symbols),
\* and changes nothing of any other user nor the older queue entries.
C19_SendEffects ==
    \A src \in Names, dst \in Names, m \in Plaintexts :
        \A ks \in KeyDraws(m) :
            \E o \in {send_message(CS, src, dst, m, ks)} :
                o.ret.ok =>
                    /\ o.ret.val[1] = src
                    /\ Len(o.ret.val[2]) = Len(m)
                    /\ o.cs.message_queue
                          = <<<<dst, o.ret.val>>>> \o message_queue
                    /\ o.cs.users =
                          [users EXCEPT ![FirstUser(CS, src)] =
                              [@ EXCEPT
                                 !.sk = ks[Len(m)],
                                 !.sent_messages = Append(@, m),
                                 !.nb_sent_messages = @ + 1,
                                 !.connections = Append(@, dst)]]
                    /\ DOMAIN o.cs.pks = DOMAIN pks
                    /\ \A other \in DOMAIN pks \ {src} :
                          o.cs.pks[other] = pks[other]
                    /\ [o.cs EXCEPT !.users = users, !.pks = pks,
                                    !.message_queue = message_queue] = CS

\* send_message has just put its message in front of an older one
C19_Witness ==
    /\ call = "send_message"
    /\ ret.ok
    /\ Len(message_queue) >= 2
    /\ message_queue[1][2] = ret.val
    /\ \E i \in 1..Len(users) :
          /\ users[i].name = ret.val[1]
          /\ users[i].nb_sent_messages >= 1
          /\ users[i].connections # <<>>

\* C20: a successful receive_message(dst, entry) appends the decrypted
\* plaintext to the recipient's received log, adds 1 to the received
\* counter and removes exactly one queue entry, the oldest; with send_message
\* inserting in front of the entries queued before, entries leave the queue
\* in the order they were enqueued.
C20_ReceiveEffects ==
    /\ [](\A d \in Deliveries :
            \E r \in {receive_message(CS, d[1], d[2])} :
                r.ret.ok =>
                    /\ Len(r.ret.val) = Len(d[2][2])
                    /\ \A k \in 1..Len(d[2][2]) :
                          Return(r.ret.val[k])
                              = decrypt_char(CS, d[1], d[2][2][k])
                    /\ r.cs =
                          [CS EXCEPT
                             !.users[FirstUser(CS, d[1])].received_messages
                                 = Append(@, r.ret.val),
                             !.users[FirstUser(CS, d[1])].nb_received_messages
                                 = @ + 1,
                             !.message_queue
                                 = SubSeq(@, 1, Len(@) - 1)])
    /\ [][/\ (call' = "send_message" /\ ret'.ok)
                => Tail(message_queue') = message_queue
          /\ (call' = "receive_message" /\ ret'.ok)
                => message_queue'
                      = SubSeq(message_queue, 1, Len(message_queue) - 1)]_vars

\* receive_message has just delivered a message while a newer one stays
\* queued
C20_Witness ==
    /\ call = "receive_message"
    /\ ret.ok
    /\ message_queue # <<>>
    /\ \E i \in 1..Len(users) :
          /\ users[i].received_messages # <<>>
          /\ users[i].received_messages[Len(users[i].received_messages)]
                = ret.val
          /\ users[i].nb_received_messages >= 1

\* seq1 is a prefix of seq2
IsPrefix(seq1, seq2) ==
    /\ Len(seq1) <= Len(seq2)
    /\ SubSeq(seq2, 1, Len(seq1)) = seq1

\* C21: intercept_message never changes the cryptosystem; a successful call
\* appends exactly one record (sender, recipient, plaintext), the plaintext
\* being the one it returns, to the intercepted log and a failed one appends
\* nothing; the log only grows at its end.
C21_InterceptEffects ==
    /\ [](\A a \in {BRUTE_FORCE, SHANKS_BSGS} :
            \E o \in {intercept_message(CS, intercepted_messages, a)} :
                IF o.ret.ok
                THEN o.log = Append(intercepted_messages,
                                    <<OldestEntry[2][1], OldestEntry[1],
                                      o.ret.val>>)
                ELSE o.log = intercepted_messages)
    /\ [][/\ call' = "intercept_message" => UNCHANGED csvars
          /\ IsPrefix(intercepted_messages, intercepted_messages')
          /\ (call' = "intercept_message" /\ ret'.ok)
                => Len(intercepted_messages')
                      = Len(intercepted_messages) + 1]_vars

\* An interception has just logged, beside the text it returned, the sender
\* and the recipient of a queued message, two different users
C21_Witness ==
    /\ call = "intercept_message"
    /\ ret.ok
    /\ message_queue # <<>>
    /\ intercepted_messages
          = << <<OldestEntry[2][1], OldestEntry[1], ret.val>> >>
    /\ OldestEntry[2][1] # OldestEntry[1]
    /\ ret.val # <<>>

\* The message the caller keeps is still in the queue
KeptQueued ==
    /\ Kept
    /\ \E i \in 1..Len(message_queue) :
          message_queue[i] = <<KeptReceiver, KeptEncrMessage>>

\* The ordinals of a text taken modulo p
Reduced(m) == [k \in 1..Len(m) |-> m[k] % p]

\* C23: a queued message stays decryptable: whatever operations come between
\* send_message(A, B, m) and the receive_message(B, ...) of that ciphertext,
\* A and B being registered once and never removed, the receive returns m.
C23_QueuedStaysDecryptable ==
    KeptQueued =>
        receive_message(CS, KeptReceiver, KeptEncrMessage).ret
            = Return(KeptMessage)

\* C23, amended: the receive returns m, each ordinal taken modulo p, whenever
\* the recipient's key pair is the one it had when the message was sent.
C23_DecryptableUnderSameKey ==
    (KeptQueued /\ pks[KeptReceiver] = KeptReceiverPk) =>
        receive_message(CS, KeptReceiver, KeptEncrMessage).ret
            = Return(Reduced(KeptMessage))

\* The kept message has just been received and read back as sent, by a
\* recipient whose key is the one of the send, after the sender's key was
\* rotated past the one that encrypted the last symbol
C23_Witness ==
    /\ call = "receive_message"
    /\ ret.ok
    /\ Kept
    /\ ret.val = KeptMessage
    /\ pks[KeptReceiver] = KeptReceiverPk
    /\ pks[KeptEncrMessage[1]]
          # KeptEncrMessage[2][Len(KeptEncrMessage[2])][1]

\* The queue without its entry at position i
Without(queue, i) == SubSeq(queue, 1, i - 1) \o SubSeq(queue, i + 1, Len(queue))

\* C24: the queue entry that receive_message(dst, encrypted) removes is the
\* entry whose payload is encrypted and whose recipient is dst.
C24_ReceiveRemovesItsEntry ==
    KeptQueued =>
        \E r \in {receive_message(CS, KeptReceiver, KeptEncrMessage)} :
            r.ret.ok =>
                \E i \in 1..Len(message_queue) :
                    /\ message_queue[i] = <<KeptReceiver, KeptEncrMessage>>
                    /\ r.cs.message_queue = Without(message_queue, i)

\* C24, amended: receive_message(dst, encrypted) removes the oldest entry of
\* the queue whatever its arguments are; that entry is the one of encrypted
\* and dst exactly when theirs is the oldest entry.
C24_ReceiveRemovesOldest ==
    KeptQueued =>
        \E r \in {receive_message(CS, KeptReceiver, KeptEncrMessage)} :
            r.ret.ok =>
                /\ r.cs.message_queue
                      = Without(message_queue, Len(message_queue))
                /\ (\E i \in 1..Len(message_queue) :
                      /\ message_queue[i] = <<KeptReceiver, KeptEncrMessage>>
                      /\ r.cs.message_queue = Without(message_queue, i))
                   <=> OldestEntry = <<KeptReceiver, KeptEncrMessage>>

\* The kept message has been received, and it is what the queue still holds
C24_Witness ==
    /\ call = "receive_message"
    /\ ret.ok
    /\ Kept
    /\ message_queue = << <<KeptReceiver, KeptEncrMessage>> >>
    /\ users[FirstUser(CS, KeptReceiver)].received_messages = <<ret.val>>

\* C27: receive_message called while the queue is empty, as a second receive
\* of a ciphertext already received is, fails and changes nothing: the
\* recipient's received log and counter are what they were.
C27_EmptyQueueReceive ==
    (Kept /\ message_queue = <<>>) =>
        \E r \in {receive_message(CS, KeptReceiver, KeptEncrMessage)} :
            /\ ~r.ret.ok
            /\ r.cs = CS

\* C25: the solvers are interchangeable for interception: in every reachable
\* state with a non-empty queue, intercept_message with SHANKS_BSGS succeeds
\* and returns the plaintext that intercept_message with BRUTE_FORCE returns.
C25_SolversInterchangeable ==
    message_queue # <<>> =>
        \E b \in {intercept_message(CS, intercepted_messages, BRUTE_FORCE)},
           s \in {intercept_message(CS, intercepted_messages, SHANKS_BSGS)} :
            /\ b.ret.ok
            /\ s.ret = b.ret

\* A non-empty message has been intercepted whose recipient's key the two
\* solvers report as different exponents
C25_Witness ==
    /\ call = "intercept_message"
    /\ ret.ok
    /\ ret.val # <<>>
    /\ message_queue # <<>>
    /\ brute_force(p, g, pks[OldestEntry[1]])
          # shanks_bsgs(p, g, pks[OldestEntry[1]])

\* C26: for a prime p, a generator g and a target t in [1, p-1], shanks_bsgs
\* never returns -1: it returns the one exponent e with 0 <= e <= p-2 and
\* g^e mod p = t; for the target 0 both solvers return -1.
C26_ShanksTotal ==
    /\ (call = "shanks_bsgs" /\ SolveB >= 1) =>
          /\ ret.val # -1
          /\ {e \in 0..(SolveP - 2) : ModPow(SolveG, e, SolveP) = SolveB}
                = {ret.val}
    /\ (call \in {"shanks_bsgs", "brute_force"} /\ SolveB = 0) =>
          ret.val = -1

\* shanks_bsgs has found an exponent beyond its baby steps, which takes a
\* giant step
C26_Witness ==
    /\ call = "shanks_bsgs"
    /\ SolveB >= 1
    /\ ret.val > IntSqrt(SolveP)
    /\ ModPow(SolveG, ret.val, SolveP) = SolveB

C29_CountersMatchLists ==
    /\ nb_users = Len(users)
    /\ \A i \in 1..Len(users) :
          /\ users[i].nb_sent_messages = Len(users[i].sent_messages)
          /\ users[i].nb_sent_messages = Len(users[i].connections)
          /\ users[i].nb_received_messages = Len(users[i].received_messages)

\* remove_user has returned, a removed name is left in pks without a user
\* object, and the remaining user has sent and received a message
C29_Witness ==
    /\ call = "remove_user"
    /\ ret.ok
    /\ \E name \in Names : Removed(name)
    /\ nb_users = 1
    /\ users[1].nb_sent_messages = 1
    /\ users[1].nb_received_messages = 1

\* The n find_prime_above was called with
PrimeN == input[1]

\* C30: for every n >= 1, find_prime_above(n) returns the first prime
\* strictly greater than n: never n itself, a non-prime or -1.
C30_FirstPrimeAbove ==
    (call = "find_prime_above" /\ PrimeN >= 1) =>
        /\ ret.val > PrimeN
        /\ IsPrime(ret.val)
        /\ \A q \in (PrimeN + 1)..(ret.val - 1) : ~IsPrime(q)

====
